---- MODULE Spec2Model ----
(***************************************************************************)
(* Ocean Notes (notes_app_frontend/src/App.js): the note collection, its   *)
(* selection and search text, and its persistence in localStorage under    *)
(* one key, as a state machine.                                            *)
(*                                                                         *)
(* JavaScript values are tagged records; a string is a sequence of         *)
(* one-character strings, so that JSON.stringify and JSON.parse work on    *)
(* the characters of the stored text.                                      *)
(***************************************************************************)
EXTENDS Integers, Sequences, FiniteSets, TLC

(***************************************************************************)
(* JavaScript values                                                       *)
(***************************************************************************)
Undef == [t |-> "undefined"]

Null == [t |-> "null"]

Bool(b) == [t |-> "boolean", b |-> b]

Num(n) == [t |-> "number", n |-> n]

Str(s) == [t |-> "string", s |-> s]

\* An array: a holds its elements.
Arr(a) == [t |-> "array", a |-> a]

\* An object: m holds its own properties, [k, v], in insertion order.
Obj(m) == [t |-> "object", m |-> m]

\* o.k: the value of property k, undefined when o has none (or is a primitive).
Get(o, k) ==
  IF o.t = "object" /\ \E i \in 1..Len(o.m) : o.m[i].k = k
  THEN o.m[CHOOSE i \in 1..Len(o.m) : o.m[i].k = k].v
  ELSE Undef

\* The properties m with k set to v: in place when m has k, appended otherwise.
SetKey(m, k, v) ==
  IF \E i \in 1..Len(m) : m[i].k = k
  THEN [i \in 1..Len(m) |-> IF m[i].k = k THEN [k |-> k, v |-> v] ELSE m[i]]
  ELSE Append(m, [k |-> k, v |-> v])

\* ToBoolean.
Truthy(v) ==
  CASE v.t = "undefined" -> FALSE
    [] v.t = "null" -> FALSE
    [] v.t = "boolean" -> v.b
    [] v.t = "number" -> v.n # 0
    [] v.t = "string" -> v.s # <<>>
    [] OTHER -> TRUE

\* a ?? b
Coalesce(a, b) == IF a.t \in {"undefined", "null"} THEN b ELSE a

\* a || b
OrElse(a, b) == IF Truthy(a) THEN a ELSE b

(***************************************************************************)
(* Strings                                                                 *)
(***************************************************************************)
WhiteSpace == {" ", "\n", "\t", "\r"}

RECURSIVE TrimStart(_)
TrimStart(s) ==
  IF s # <<>> /\ Head(s) \in WhiteSpace THEN TrimStart(Tail(s)) ELSE s

RECURSIVE TrimEnd(_)
TrimEnd(s) ==
  IF s # <<>> /\ s[Len(s)] \in WhiteSpace
  THEN TrimEnd(SubSeq(s, 1, Len(s) - 1))
  ELSE s

\* String.prototype.trim
Trim(s) == TrimEnd(TrimStart(s))

LowerOf(c) ==
  CASE c = "A" -> "a"
    [] c = "E" -> "e"
    [] c = "M" -> "m"
    [] c = "T" -> "t"
    [] OTHER -> c

\* String.prototype.toLowerCase, on the letters the model's texts use.
ToLowerCase(s) == [i \in 1..Len(s) |-> LowerOf(s[i])]

\* String.prototype.includes
Includes(s, q) ==
  \E i \in 0..(Len(s) - Len(q)) : SubSeq(s, i + 1, i + Len(q)) = q

(***************************************************************************)
(* JSON.stringify                                                          *)
(***************************************************************************)
DigitChars == <<"0", "1", "2", "3", "4", "5", "6", "7", "8", "9">>

RECURSIVE NatToChars(_)
NatToChars(n) ==
  IF n < 10
  THEN <<DigitChars[n + 1]>>
  ELSE NatToChars(n \div 10) \o <<DigitChars[(n % 10) + 1]>>

NumToChars(n) == IF n < 0 THEN <<"-">> \o NatToChars(-n) ELSE NatToChars(n)

\* EscapeChar forgetting the backslash.
EscapeCharQuotesOnly(c) ==
  CASE c = "\"" -> <<"\\", "\"">>
    [] c = "\n" -> <<"\\", "n">>
    [] OTHER -> <<c>>

EscapeChar(c) ==
  CASE c = "\"" -> <<"\\", "\"">>
    [] c = "\\" -> <<"\\", "\\">>
    [] c = "\n" -> <<"\\", "n">>
    [] c = "\t" -> <<"\\", "t">>
    [] c = "\r" -> <<"\\", "r">>
    [] OTHER -> <<c>>

RECURSIVE EscapeChars(_)
EscapeChars(s) ==
  IF s = <<>> THEN <<>> ELSE EscapeChar(Head(s)) \o EscapeChars(Tail(s))

\* A string literal: the quoted, escaped text of s.
Quote(s) == <<"\"">> \o EscapeChars(s) \o <<"\"">>

RECURSIVE StringifyValue(_), StringifyElements(_, _), StringifyMembers(_, _)
\* The JSON text of v (v is not undefined).
StringifyValue(v) ==
  CASE v.t = "null" -> <<"n", "u", "l", "l">>
    [] v.t = "boolean" ->
         IF v.b THEN <<"t", "r", "u", "e">> ELSE <<"f", "a", "l", "s", "e">>
    [] v.t = "number" -> NumToChars(v.n)
    [] v.t = "string" -> Quote(v.s)
    [] v.t = "array" -> <<"[">> \o StringifyElements(v.a, 1) \o <<"]">>
    [] v.t = "object" -> <<"{">> \o StringifyMembers(v.m, TRUE) \o <<"}">>

\* The elements of a from index i on, comma-separated; undefined prints as null.
StringifyElements(a, i) ==
  IF i > Len(a)
  THEN <<>>
  ELSE (IF i > 1 THEN <<",">> ELSE <<>>)
       \o (IF a[i].t = "undefined"
           THEN <<"n", "u", "l", "l">>
           ELSE StringifyValue(a[i]))
       \o StringifyElements(a, i + 1)

\* The properties m, comma-separated; a property whose value is undefined is
\* left out. first: nothing has been printed yet.
StringifyMembers(m, first) ==
  IF m = <<>>
  THEN <<>>
  ELSE IF Head(m).v.t = "undefined"
       THEN StringifyMembers(Tail(m), first)
       ELSE (IF first THEN <<>> ELSE <<",">>)
            \o Quote(Head(m).k) \o <<":">> \o StringifyValue(Head(m).v)
            \o StringifyMembers(Tail(m), FALSE)

\* JSON.stringify(notes), notes an array.
JSONstringify(notes) == StringifyValue(Arr(notes))

(***************************************************************************)
(* JSON.parse                                                              *)
(***************************************************************************)
\* The character of s at i; "" past the end.
At(s, i) == IF i >= 1 /\ i <= Len(s) THEN s[i] ELSE ""

\* A parse: ok, the value v, and the index i after it. Not ok: a SyntaxError.
Parsed(v, i) == [ok |-> TRUE, v |-> v, i |-> i]

SyntaxError == [ok |-> FALSE, v |-> Undef, i |-> 0]

RECURSIVE SkipWs(_, _)
SkipWs(s, i) == IF At(s, i) \in WhiteSpace THEN SkipWs(s, i + 1) ELSE i

IsDigit(c) == \E d \in 1..10 : DigitChars[d] = c

DigitOf(c) == (CHOOSE d \in 1..10 : DigitChars[d] = c) - 1

\* The character an escape \e stands for; "" when the model has no such escape.
Unescape(e) ==
  CASE e = "\"" -> "\""
    [] e = "\\" -> "\\"
    [] e = "/" -> "/"
    [] e = "n" -> "\n"
    [] e = "t" -> "\t"
    [] e = "r" -> "\r"
    [] OTHER -> ""

RECURSIVE ParseChars(_, _, _)
\* A string's characters from i (after its opening quote) to its closing quote.
ParseChars(s, i, acc) ==
  LET c == At(s, i) IN
  IF c = "" \/ c \in {"\n", "\t", "\r"}
  THEN SyntaxError
  ELSE IF c = "\""
  THEN Parsed(Str(acc), i + 1)
  ELSE IF c = "\\"
  THEN IF Unescape(At(s, i + 1)) = ""
       THEN SyntaxError
       ELSE ParseChars(s, i + 2, Append(acc, Unescape(At(s, i + 1))))
  ELSE ParseChars(s, i + 1, Append(acc, c))

RECURSIVE ParseDigits(_, _, _)
\* The digits from i on, after the digits that made n.
ParseDigits(s, i, n) ==
  IF IsDigit(At(s, i))
  THEN ParseDigits(s, i + 1, 10 * n + DigitOf(At(s, i)))
  ELSE Parsed(Num(n), i)

\* An integer: -? (0 | [1-9][0-9]*). Fractions and exponents are not modelled.
ParseNumber(s, i) ==
  LET neg == At(s, i) = "-"
      j == IF neg THEN i + 1 ELSE i
      r == IF At(s, j) = "0"
           THEN Parsed(Num(0), j + 1)
           ELSE IF IsDigit(At(s, j))
           THEN ParseDigits(s, j, 0)
           ELSE SyntaxError
  IN IF r.ok /\ neg THEN Parsed(Num(-r.v.n), r.i) ELSE r

\* The literal lit at i.
ParseLiteral(s, i, lit, v) ==
  IF i + Len(lit) - 1 <= Len(s) /\ SubSeq(s, i, i + Len(lit) - 1) = lit
  THEN Parsed(v, i + Len(lit))
  ELSE SyntaxError

RECURSIVE ParseValue(_, _), ParseElements(_, _, _), ParseMembers(_, _, _)
ParseValue(s, i) ==
  LET c == At(s, i) IN
  CASE c = "[" ->
         IF At(s, SkipWs(s, i + 1)) = "]"
         THEN Parsed(Arr(<<>>), SkipWs(s, i + 1) + 1)
         ELSE ParseElements(s, SkipWs(s, i + 1), <<>>)
    [] c = "{" ->
         IF At(s, SkipWs(s, i + 1)) = "}"
         THEN Parsed(Obj(<<>>), SkipWs(s, i + 1) + 1)
         ELSE ParseMembers(s, SkipWs(s, i + 1), <<>>)
    [] c = "\"" -> ParseChars(s, i + 1, <<>>)
    [] c = "-" \/ IsDigit(c) -> ParseNumber(s, i)
    [] c = "n" -> ParseLiteral(s, i, <<"n", "u", "l", "l">>, Null)
    [] c = "t" -> ParseLiteral(s, i, <<"t", "r", "u", "e">>, Bool(TRUE))
    [] c = "f" -> ParseLiteral(s, i, <<"f", "a", "l", "s", "e">>, Bool(FALSE))
    [] OTHER -> SyntaxError

\* The elements of an array from i on, after the elements acc, to its "]".
ParseElements(s, i, acc) ==
  LET r == ParseValue(s, i)
      j == SkipWs(s, r.i)
  IN IF ~r.ok
     THEN SyntaxError
     ELSE IF At(s, j) = ","
     THEN ParseElements(s, SkipWs(s, j + 1), Append(acc, r.v))
     ELSE IF At(s, j) = "]"
     THEN Parsed(Arr(Append(acc, r.v)), j + 1)
     ELSE SyntaxError

\* The properties of an object from i on, after the properties acc, to its "}".
ParseMembers(s, i, acc) ==
  LET k == IF At(s, i) = "\"" THEN ParseChars(s, i + 1, <<>>) ELSE SyntaxError
      c == SkipWs(s, k.i)
      r == IF k.ok /\ At(s, c) = ":"
           THEN ParseValue(s, SkipWs(s, c + 1))
           ELSE SyntaxError
      j == SkipWs(s, r.i)
  IN IF ~r.ok
     THEN SyntaxError
     ELSE IF At(s, j) = ","
     THEN ParseMembers(s, SkipWs(s, j + 1), SetKey(acc, k.v.s, r.v))
     ELSE IF At(s, j) = "}"
     THEN Parsed(Obj(SetKey(acc, k.v.s, r.v)), j + 1)
     ELSE SyntaxError

\* JSON.parse(s): the value of the whole text, or a SyntaxError.
JSONparse(s) ==
  LET r == ParseValue(s, SkipWs(s, 1)) IN
  IF r.ok /\ SkipWs(s, r.i) = Len(s) + 1 THEN r ELSE SyntaxError

(***************************************************************************)
(* Bounds of the model                                                     *)
(***************************************************************************)
\* The handlers a run invokes, over both sessions.
MaxSteps == 5

\* The characters the storage medium takes under the key before setItem
\* throws QuotaExceededError.
Quota == 130

\* The App instances (browser tabs) that may share the storage key.
Sessions == {1, 2}

\* Math.random().toString(36).slice(2, 8): the suffixes a run may draw.
RandomSuffixes == {<<"a">>, <<"b">>}

\* What the user may type as a title, as a content, as a search text.
TitleInputs == {<<"A", "M", "E">>}

ContentInputs == {<<"\\", "m", "e", "\"">>}

QueryInputs == {<<>>, <<" ">>, <<" ", "m", "E", " ">>}

(***************************************************************************)
(* Notes                                                                   *)
(***************************************************************************)
KeyId == <<"i", "d">>

KeyTitle == <<"t", "i", "t", "l", "e">>

KeyContent == <<"c", "o", "n", "t", "e", "n", "t">>

KeyUpdatedAt == <<"u", "p", "d", "a", "t", "e", "d", "A", "t">>

\* { id, title, content, updatedAt }
Note(id, title, content, updatedAt) ==
  Obj(<<[k |-> KeyId, v |-> id],
        [k |-> KeyTitle, v |-> title],
        [k |-> KeyContent, v |-> content],
        [k |-> KeyUpdatedAt, v |-> updatedAt]>>)

\* `${Date.now()}-${Math.random().toString(36).slice(2, 8)}`
generateId(t, r) == Str(NatToChars(t) \o <<"-">> \o r)

\* A collection stored by an earlier visit: the older note first.
SeedNotes ==
  <<Note(Str(<<"7", "-", "a">>), Str(<<"M", "e", "e", "t">>), Str(<<>>), Num(7)),
    Note(Str(<<"8", "-", "b">>), Str(<<>>), Str(<<"a", "\n", "\"", "\\">>), Num(8))>>

\* What the key may hold before the app runs: nothing, the empty string, text
\* that is not JSON, JSON that is no array, an array of something else than
\* notes, an empty array, a stored collection.
ItemObject == Str(<<"{", "}">>)

ItemBroken == Str(<<"[", "{">>)

ItemNumbers == Str(<<"[", " ", "7", "]">>)

ItemSeed == Str(JSONstringify(SeedNotes))

InitialItems ==
  {Null, Str(<<>>), ItemBroken, ItemObject, Str(<<"n", "u", "l", "l">>),
   ItemNumbers, Str(<<"[", " ", "]">>), ItemSeed}

(***************************************************************************)
(* State                                                                   *)
(***************************************************************************)
VARIABLES
  storage,     \* localStorage.getItem(STORAGE_KEY): null, or the stored string
  now,         \* Date.now()
  mounted,     \* mounted[s]: session s has constructed its App
  notes,       \* notes[s]: the notes state of session s, an array
  selectedId,  \* selectedId[s]
  query,       \* query[s]: the search text
  last,        \* the last handler run: its name, session, argument and save
  steps        \* the handlers run so far

vars == <<storage, now, mounted, notes, selectedId, query, last, steps>>

(***************************************************************************)
(* loadNotes, saveNotes                                                    *)
(***************************************************************************)
\* loadNotes keeping a parsed value that is no array as a collection of one.
loadNotesWrapping(raw) ==
  IF ~Truthy(raw)
  THEN <<>>
  ELSE LET parsed == JSONparse(raw.s) IN
       IF ~parsed.ok
       THEN <<>>
       ELSE IF parsed.v.t # "array" THEN <<parsed.v>> ELSE parsed.v.a

loadNotes(raw) ==
  IF ~Truthy(raw)
  THEN <<>>
  ELSE LET parsed == JSONparse(raw.s) IN
       IF ~parsed.ok
       THEN <<>>
       ELSE IF parsed.v.t # "array" THEN <<>> ELSE parsed.v.a

\* localStorage.setItem throws: the text does not fit.
SetItemThrows(text) == Len(text) > Quota

\* saveNotes removing the item before it writes: a failed write leaves none.
saveNotesRemovingFirst(item, ns) ==
  LET text == JSONstringify(ns) IN
  IF SetItemThrows(text) THEN Null ELSE Str(text)

\* saveNotes keeping the stored notes that ns does not have.
saveNotesMerging(item, ns) ==
  LET stored == IF item.t = "string" /\ JSONparse(item.s).ok
                     /\ JSONparse(item.s).v.t = "array"
                THEN JSONparse(item.s).v.a
                ELSE <<>>
      kept == SelectSeq(stored,
                LAMBDA n : \A i \in 1..Len(ns) : Get(ns[i], KeyId) # Get(n, KeyId))
      text == JSONstringify(ns \o kept)
  IN IF SetItemThrows(text) THEN item ELSE Str(text)

\* The stored item after saveNotes(ns), item being the one before.
saveNotes(item, ns) ==
  LET text == JSONstringify(ns) IN
  IF SetItemThrows(text) THEN item ELSE Str(text)

(***************************************************************************)
(* filteredNotes, selectedNote                                             *)
(***************************************************************************)
\* The comparison the other way round: a.updatedAt - b.updatedAt.
CompareNotesAscending(a, b) ==
  LET x == Get(a, KeyUpdatedAt)
      y == Get(b, KeyUpdatedAt)
  IN IF x.t = "number" /\ y.t = "number" THEN x.n - y.n ELSE 0

\* (a, b) => b.updatedAt - a.updatedAt; NaN (a timestamp that is no number)
\* sorts as 0.
CompareNotes(a, b) ==
  LET x == Get(a, KeyUpdatedAt)
      y == Get(b, KeyUpdatedAt)
  IN IF x.t = "number" /\ y.t = "number" THEN y.n - x.n ELSE 0

RECURSIVE SortInsert(_, _)
\* sorted with x put after every element that does not sort after it.
SortInsert(sorted, x) ==
  IF sorted = <<>>
  THEN <<x>>
  ELSE IF CompareNotes(Head(sorted), x) <= 0
       THEN <<Head(sorted)>> \o SortInsert(Tail(sorted), x)
       ELSE <<x>> \o sorted

RECURSIVE SortNotes(_, _)
\* [...notes].sort(compare): a stable sort of a from index i on into acc.
SortNotes(a, acc) ==
  IF a = <<>> THEN acc ELSE SortNotes(Tail(a), SortInsert(acc, Head(a)))

\* (n.title || '').toLowerCase().includes(q) ||
\* (n.content || '').toLowerCase().includes(q)
MatchesQuery(n, q) ==
  \/ Includes(ToLowerCase(OrElse(Get(n, KeyTitle), Str(<<>>)).s), q)
  \/ Includes(ToLowerCase(OrElse(Get(n, KeyContent), Str(<<>>)).s), q)

filteredNotes(ns, qry) ==
  LET q == ToLowerCase(Trim(qry))
      sorted == SortNotes(ns, <<>>)
  IN IF q = <<>>
     THEN sorted
     ELSE SelectSeq(sorted, LAMBDA n : MatchesQuery(n, q))

\* ns.filter((n) => n.id !== id)
WithoutId(ns, id) == SelectSeq(ns, LAMBDA n : Get(n, KeyId) # id)

\* ns[0]?.id
FirstId(ns) == IF ns = <<>> THEN Undef ELSE Get(ns[1], KeyId)

\* notes.find((n) => n.id === selectedId) || null
selectedNote(ns, id) ==
  IF \E i \in 1..Len(ns) : Get(ns[i], KeyId) = id
  THEN OrElse(ns[CHOOSE i \in 1..Len(ns) :
                   /\ Get(ns[i], KeyId) = id
                   /\ \A j \in 1..(i - 1) : Get(ns[j], KeyId) # id],
              Null)
  ELSE Null

(***************************************************************************)
(* Handlers. Each ends with the effect that follows its render:            *)
(* saveNotes(notes) when notes is a new array.                             *)
(***************************************************************************)
Ran(op, s, arg, ns) ==
  [op |-> op, s |-> s, arg |-> arg,
   save |-> IF SetItemThrows(JSONstringify(ns)) THEN "failed" ELSE "ok"]

RanNoSave(op, s, arg) == [op |-> op, s |-> s, arg |-> arg, save |-> "none"]

\* App(): the initial state of a session and its first effect.
Mount(s) ==
  /\ steps < MaxSteps
  /\ LET loaded == loadNotes(storage) IN
     /\ notes' = [notes EXCEPT ![s] = loaded]
     /\ selectedId' = [selectedId EXCEPT ![s] = Coalesce(FirstId(loaded), Null)]
     /\ storage' = saveNotes(storage, loaded)
     /\ last' = Ran("App", s, storage, loaded)
  /\ query' = [query EXCEPT ![s] = <<>>]
  /\ mounted' = [mounted EXCEPT ![s] = TRUE]
  /\ steps' = steps + 1
  /\ UNCHANGED now

Init ==
  /\ storage \in InitialItems
  /\ now = 9
  /\ mounted = [s \in Sessions |-> FALSE]
  /\ notes = [s \in Sessions |-> <<>>]
  /\ selectedId = [s \in Sessions |-> Null]
  /\ query = [s \in Sessions |-> <<>>]
  /\ last = RanNoSave("none", 0, Undef)
  /\ steps = 0

\* SetNotes with an effect that saves the notes of the render before.
SetNotesSavingStale(op, s, arg, next) ==
  /\ notes' = [notes EXCEPT ![s] = next]
  /\ storage' = saveNotes(storage, notes[s])
  /\ last' = Ran(op, s, arg, next)
  /\ steps' = steps + 1

\* The state after setNotes(next) in handler op of session s, and its effect.
SetNotes(op, s, arg, next) ==
  /\ notes' = [notes EXCEPT ![s] = next]
  /\ storage' = saveNotes(storage, next)
  /\ last' = Ran(op, s, arg, next)
  /\ steps' = steps + 1

\* handleNew putting the new note after the others.
handleNewAppending(s) ==
  /\ mounted[s]
  /\ steps < MaxSteps
  /\ \E r \in RandomSuffixes :
       LET newNote == Note(generateId(now, r), Str(<<>>), Str(<<>>), Num(now)) IN
       /\ SetNotes("handleNew", s, newNote, Append(notes[s], newNote))
       /\ selectedId' = [selectedId EXCEPT ![s] = Get(newNote, KeyId)]
  /\ UNCHANGED <<now, mounted, query>>

\* handleNew, the clock and Math.random giving id and updatedAt.
handleNew(s) ==
  /\ mounted[s]
  /\ steps < MaxSteps
  /\ \E r \in RandomSuffixes :
       LET newNote == Note(generateId(now, r), Str(<<>>), Str(<<>>), Num(now)) IN
       /\ SetNotes("handleNew", s, newNote, <<newNote>> \o notes[s])
       /\ selectedId' = [selectedId EXCEPT ![s] = Get(newNote, KeyId)]
  /\ UNCHANGED <<now, mounted, query>>

\* The next selection taken from notes, not from filteredNotes.
NextSelectionInStoredOrder(ns, qry, id) ==
  OrElse(FirstId(WithoutId(ns, id)), Null)

\* The selection handleDelete leaves: remaining[0]?.id || null
NextSelection(ns, qry, id) ==
  OrElse(FirstId(WithoutId(filteredNotes(ns, qry), id)), Null)

\* handleDelete; with nothing selected it returns at once (and the button is
\* disabled), which changes nothing.
handleDelete(s) ==
  /\ mounted[s]
  /\ steps < MaxSteps
  /\ Truthy(selectedId[s])
  /\ SetNotes("handleDelete", s, selectedId[s], WithoutId(notes[s], selectedId[s]))
  /\ selectedId' =
       [selectedId EXCEPT ![s] = NextSelection(notes[s], query[s], selectedId[s])]
  /\ UNCHANGED <<now, mounted, query>>

\* handleChange's map adding the note when no id matches.
ReplaceOrAddNote(prev, updated) ==
  IF \E i \in 1..Len(prev) : Get(prev[i], KeyId) = Get(updated, KeyId)
  THEN [i \in 1..Len(prev) |->
          IF Get(prev[i], KeyId) = Get(updated, KeyId) THEN updated ELSE prev[i]]
  ELSE Append(prev, updated)

\* prev.map((n) => (n.id === updated.id ? updated : n))
ReplaceNote(prev, updated) ==
  [i \in 1..Len(prev) |->
     IF Get(prev[i], KeyId) = Get(updated, KeyId) THEN updated ELSE prev[i]]

\* handleChange(updated)
handleChange(s, updated) ==
  /\ SetNotes("handleChange", s, updated, ReplaceNote(notes[s], updated))
  /\ UNCHANGED <<now, mounted, query, selectedId>>

\* { ...note, [key]: value, updatedAt: Date.now() }
Edited(note, key, value, t) ==
  Obj(SetKey(SetKey(IF note.t = "object" THEN note.m ELSE <<>>, key, Str(value)),
             KeyUpdatedAt, Num(t)))

\* NoteEditor's handleTitle: the editor shows the selected note, if any.
handleTitle(s) ==
  /\ mounted[s]
  /\ steps < MaxSteps
  /\ selectedNote(notes[s], selectedId[s]) # Null
  /\ \E value \in TitleInputs :
       handleChange(s, Edited(selectedNote(notes[s], selectedId[s]),
                              KeyTitle, value, now))

\* NoteEditor's handleContent
handleContent(s) ==
  /\ mounted[s]
  /\ steps < MaxSteps
  /\ selectedNote(notes[s], selectedId[s]) # Null
  /\ \E value \in ContentInputs :
       handleChange(s, Edited(selectedNote(notes[s], selectedId[s]),
                              KeyContent, value, now))

\* Notes that are in no collection: what handleChange may be handed when its
\* caller holds a note the collection no longer has.
UnknownNotes ==
  {Note(Str(<<"0", "-", "z">>), Str(title), Str(<<>>), Num(now)) :
     title \in TitleInputs}

Ids(ns) == {Get(ns[i], KeyId) : i \in 1..Len(ns)}

\* handleChange with a note whose id is not in the collection.
handleChangeUnknown(s) ==
  /\ mounted[s]
  /\ steps < MaxSteps
  /\ \E updated \in UnknownNotes :
       /\ Get(updated, KeyId) \notin Ids(notes[s])
       /\ handleChange(s, updated)

\* handleSelect(id), from the button of a listed note.
handleSelect(s) ==
  /\ mounted[s]
  /\ steps < MaxSteps
  /\ \E n \in {filteredNotes(notes[s], query[s])[i] :
                 i \in 1..Len(filteredNotes(notes[s], query[s]))} :
       /\ selectedId' = [selectedId EXCEPT ![s] = Get(n, KeyId)]
       /\ last' = RanNoSave("handleSelect", s, Get(n, KeyId))
  /\ steps' = steps + 1
  /\ UNCHANGED <<storage, now, mounted, notes, query>>

\* setQuery(e.target.value), from the search input.
setQuery(s) ==
  /\ mounted[s]
  /\ steps < MaxSteps
  /\ \E q \in QueryInputs :
       /\ q # query[s]
       /\ query' = [query EXCEPT ![s] = q]
       /\ last' = RanNoSave("setQuery", s, Str(q))
  /\ steps' = steps + 1
  /\ UNCHANGED <<storage, now, mounted, notes, selectedId>>

\* A millisecond passes.
Tick ==
  /\ steps < MaxSteps
  /\ now' = now + 1
  /\ last' = RanNoSave("tick", 0, Num(now + 1))
  /\ steps' = steps + 1
  /\ UNCHANGED <<storage, mounted, notes, selectedId, query>>

Session(s) ==
  \/ Mount(s)
  \/ handleNew(s)
  \/ handleDelete(s)
  \/ handleTitle(s)
  \/ handleContent(s)
  \/ handleChangeUnknown(s)
  \/ handleSelect(s)
  \/ setQuery(s)

\* One session: the app in one tab.
Next == Session(1) \/ Tick

Spec == Init /\ [][Next]_vars

\* Two sessions on the same storage key: the app in two tabs.
NextTabs == (\E s \in Sessions : Session(s)) \/ Tick

SpecTabs == Init /\ [][NextTabs]_vars

(***************************************************************************)
(* Properties                                                              *)
(***************************************************************************)
\* A note-like record: an object whose id, title and content are strings and
\* whose updatedAt is a number.
NoteLike(n) ==
  /\ n.t = "object"
  /\ Get(n, KeyId).t = "string"
  /\ Get(n, KeyTitle).t = "string"
  /\ Get(n, KeyContent).t = "string"
  /\ Get(n, KeyUpdatedAt).t = "number"

ValidCollection(ns) == \A i \in 1..Len(ns) : NoteLike(ns[i])

\* The step just taken ran handler op.
JustRan(op) == last'.op = op /\ steps' # steps

MutationOps == {"handleNew", "handleChange", "handleDelete"}

\* C1: no two notes of a collection have the same id, whatever Create, Update
\* and Delete operations led to it.
UniqueIds ==
  \A s \in Sessions : \A i, j \in 1..Len(notes[s]) :
    i # j => Get(notes[s][i], KeyId) # Get(notes[s][j], KeyId)

\* C2, as claimed: after Save(X) of a valid collection X, Load() returns X.
SaveThenLoadReturnsSaved ==
  (last.save # "none" /\ ValidCollection(notes[last.s]))
    => loadNotes(storage) = notes[last.s]

\* C2, amended: a valid collection X survives the persistence format, and
\* after a Save(X) whose storage write succeeded Load() returns X.
SuccessfulSaveThenLoadReturnsSaved ==
  \A s \in {1} : ValidCollection(notes[s]) =>
    /\ loadNotes(Str(JSONstringify(notes[s]))) = notes[s]
    /\ (last.save = "ok" /\ last.s = s) => loadNotes(storage) = notes[s]

SavedAndLoadedEscapes ==
  /\ last.op = "App"
  /\ last.save = "ok"
  /\ steps >= 3
  /\ ValidCollection(notes[1])
  /\ \E i \in 1..Len(notes[1]) :
       /\ Get(notes[1][i], KeyContent) = Str(<<"\\", "m", "e", "\"">>)
       /\ Get(notes[1][i], KeyUpdatedAt).n >= 10

\* The reference Query is held against: a text trimmed of its white space,
\* case-insensitive containment, the notes a search text keeps.
RefTrim(q) ==
  LET inner == {i \in 1..Len(q) : q[i] \notin WhiteSpace} IN
  IF inner = {}
  THEN <<>>
  ELSE SubSeq(q, CHOOSE i \in inner : \A j \in inner : i <= j,
                 CHOOSE i \in inner : \A j \in inner : i >= j)

RefContains(field, t) ==
  \E i \in 0..(Len(field) - Len(t)) :
    \A k \in 1..Len(t) : LowerOf(field[i + k]) = LowerOf(t[k])

RefKeeps(n, q) ==
  \/ RefTrim(q) = <<>>
  \/ RefContains(Get(n, KeyTitle).s, RefTrim(q))
  \/ RefContains(Get(n, KeyContent).s, RefTrim(q))

Occurrences(a, x) == Cardinality({i \in 1..Len(a) : a[i] = x})

IsPermutation(a, b) ==
  /\ Len(a) = Len(b)
  /\ \A i \in 1..Len(b) : Occurrences(a, b[i]) = Occurrences(b, b[i])

NonIncreasing(a) ==
  \A i \in 1..(Len(a) - 1) :
    Get(a[i], KeyUpdatedAt).n >= Get(a[i + 1], KeyUpdatedAt).n

\* C3: Query(X, "") is a permutation of X in non-increasing updatedAt order;
\* Query(X, s) is the notes of Query(X, "") whose title or content contains
\* the trimmed s case-insensitively (all of them when it is empty), in the
\* same order; and Query(Query(X, ""), s) = Query(X, s).
QueryIsSortThenFilter ==
  \A s \in {1} : ValidCollection(notes[s]) =>
    LET all == filteredNotes(notes[s], <<>>) IN
    /\ IsPermutation(all, notes[s])
    /\ NonIncreasing(all)
    /\ \A q \in QueryInputs :
         /\ filteredNotes(notes[s], q) = SelectSeq(all, LAMBDA n : RefKeeps(n, q))
         /\ filteredNotes(all, q) = filteredNotes(notes[s], q)

QuerySortsAndFilters ==
  /\ ValidCollection(notes[1])
  /\ filteredNotes(notes[1], <<>>) # notes[1]
  /\ Len(filteredNotes(notes[1], query[1])) \in 1..(Len(notes[1]) - 1)
  /\ \E i, j \in 1..Len(notes[1]) :
       Get(notes[1][i], KeyUpdatedAt) # Get(notes[1][j], KeyUpdatedAt)

\* C4: after a Create, Update or Delete whose storage write succeeded, the
\* stored value is the serialization of the whole in-memory collection.
PersistedAfterEveryMutation ==
  (last.op \in MutationOps /\ last.save = "ok")
    => storage = Str(JSONstringify(notes[last.s]))

MutationPersisted ==
  /\ last.op = "handleChange"
  /\ last.save = "ok"
  /\ Get(last.arg, KeyId) \in Ids(notes[1])
  /\ storage # ItemSeed
  /\ Len(notes[1]) = 2

\* C5, as claimed: Load() returns a collection other than the empty one only
\* when the stored value is a sequence of note-like records.
LoadReturnsNotesOrNothing ==
  last.op = "App" => ValidCollection(notes[last.s])

\* C5, amended: Load() returns the empty collection when the stored value is
\* absent, empty, not parseable or parses to something that is no array, and
\* the parsed array, whatever its elements, otherwise.
LoadReturnsArrayOrNothing ==
  last.op = "App" =>
    LET raw == last.arg
        loaded == notes[last.s]
    IN IF raw \in {Null, Str(<<>>), ItemBroken, ItemObject,
                   Str(<<"n", "u", "l", "l">>), Str(<<"[", " ", "]">>)}
       THEN loaded = <<>>
       ELSE IF raw = ItemNumbers
       THEN loaded = <<Num(7)>>
       ELSE Str(JSONstringify(loaded)) = raw

LoadedNumbers ==
  /\ last.op = "App"
  /\ last.arg = ItemNumbers
  /\ notes[1] = <<Num(7)>>

\* C6: a failed storage write leaves the stored value as it was; Create,
\* Update and Delete make of the in-memory collection and selection what they
\* make of it, whether the write fails or has failed before; and a successful
\* write stores the in-memory collection.
FailedWriteIsSwallowed ==
  [][\A s \in {1} :
       /\ (last'.save = "failed" /\ steps' # steps) => storage' = storage
       /\ (last'.save = "ok" /\ steps' # steps)
            => storage' = Str(JSONstringify(notes'[s]))
       /\ JustRan("handleNew") =>
            /\ notes'[s] = <<last'.arg>> \o notes[s]
            /\ selectedId'[s] = Get(last'.arg, KeyId)
       /\ JustRan("handleDelete") =>
            /\ Len(notes'[s]) < Len(notes[s])
            /\ Ids(notes'[s]) = Ids(notes[s]) \ {last'.arg}
       /\ JustRan("handleChange") =>
            /\ Len(notes'[s]) = Len(notes[s])
            /\ \A i \in 1..Len(notes[s]) :
                 notes'[s][i] = IF Get(notes[s][i], KeyId) = Get(last'.arg, KeyId)
                                THEN last'.arg
                                ELSE notes[s][i]
    ]_vars

WriteFailed ==
  /\ last.save = "failed"
  /\ last.op = "handleChange"
  /\ loadNotes(storage) # notes[1]
  /\ Len(loadNotes(storage)) = 2
  /\ Len(notes[1]) = 3

\* Ids that a collection may lack.
UnknownIds == {Str(<<"0", "-", "z">>), Str(<<"9", "-", "a">>), Null}

\* C7: Update with a note whose id is in no note of the collection, and the
\* removal Delete makes for an id that is in no note, leave the collection
\* as it was: the same notes in the same order.
UnknownIdChangesNothing ==
  [][\A s \in {1} :
       /\ (JustRan("handleChange") /\ Get(last'.arg, KeyId) \notin Ids(notes[s]))
            => (notes'[s] = notes[s] /\ selectedId'[s] = selectedId[s])
       /\ \A id \in UnknownIds :
            id \notin Ids(notes'[s]) => WithoutId(notes'[s], id) = notes'[s]
    ]_vars

ChangedUnknownNote ==
  /\ last.op = "handleChange"
  /\ Get(last.arg, KeyId) \notin Ids(notes[1])
  /\ Len(notes[1]) >= 2

\* C8: with two sessions on one key, the stored value after a successful
\* write is the writer's collection, and holds another session's collection
\* only where the two are equal.
LastWriterWins ==
  last.save = "ok" =>
    /\ storage = Str(JSONstringify(notes[last.s]))
    /\ \A o \in Sessions :
         (mounted[o] /\ notes[o] # notes[last.s]) => loadNotes(storage) # notes[o]

OtherSessionsNoteLost ==
  /\ mounted[1]
  /\ mounted[2]
  /\ last.save = "ok"
  /\ last.s = 1
  /\ last.op = "handleChange"
  /\ \E i \in 1..Len(notes[2]) :
       /\ Get(notes[2][i], KeyId) \notin Ids(loadNotes(storage))
       /\ Get(notes[2][i], KeyId) \notin Ids(SeedNotes)

\* C9: Create puts a new note with empty title and content and the current
\* time before the notes there were, which stay as they were, and selects it.
CreatePrepends ==
  [][\A s \in {1} : JustRan("handleNew") =>
       /\ Len(notes'[s]) = Len(notes[s]) + 1
       /\ Get(notes'[s][1], KeyTitle) = Str(<<>>)
       /\ Get(notes'[s][1], KeyContent) = Str(<<>>)
       /\ Get(notes'[s][1], KeyUpdatedAt) = Num(now)
       /\ Tail(notes'[s]) = notes[s]
       /\ selectedId'[s] = Get(notes'[s][1], KeyId)
       /\ (notes[s] = <<>> => Len(notes'[s]) = 1)
    ]_vars

CreatedOnNotes ==
  /\ last.op = "handleNew"
  /\ Len(notes[1]) >= 2
  /\ selectedId[1] = Get(notes[1][1], KeyId)

\* The selection is none or the id of a note of the collection.
SelectionInCollection ==
  \A s \in {1} : selectedId[s] = Null \/ selectedId[s] \in Ids(notes[s])

\* C10: in every state the selection is none or the id of a note of the
\* collection; Delete of the selected note selects the first other note of the
\* visible list (sorted by updatedAt descending, filtered by the search text),
\* or none when there is no other, so that Delete on the only note leaves an
\* empty collection and no selection.
SelectionStaysInCollection ==
  /\ SelectionInCollection
  /\ [][/\ SelectionInCollection'
        /\ \A s \in {1} :
             (JustRan("handleDelete") /\ ValidCollection(notes[s])) =>
               LET visible == SelectSeq(filteredNotes(notes[s], <<>>),
                                        LAMBDA n : RefKeeps(n, query[s]))
                   others == SelectSeq(visible,
                                       LAMBDA n : Get(n, KeyId) # selectedId[s])
               IN /\ selectedId[s] \notin Ids(notes'[s])
                  /\ selectedId'[s] =
                       IF others = <<>> THEN Null ELSE Get(others[1], KeyId)
                  /\ (Len(notes[s]) = 1 =>
                        (notes'[s] = <<>> /\ selectedId'[s] = Null))
       ]_vars

DeletedAndSelectedNextVisible ==
  /\ last.op = "handleDelete"
  /\ ValidCollection(notes[1])
  /\ selectedId[1] # Null
  /\ selectedId[1] # FirstId(notes[1])

====
